---- MODULE Spec2Model ----
(***************************************************************************)
(* Model of HipSTR's region bookkeeping (region.h) and of the per-region   *)
(* read filter, annotation and read-group demultiplexing                   *)
(* (bam_processor.cpp).                                                    *)
(*                                                                         *)
(* Chromosome names are std::string values; they are modelled as           *)
(* sequences of character codes so that std::string::compare can be        *)
(* computed.  Library labels, file names and tag names are TLA+ strings.   *)
(***************************************************************************)
EXTENDS Integers, Sequences, FiniteSets, TLC

VARIABLES
  \* ---- RegionGroup object (region.h) ----
  group,              \* [regions_, chrom_, start_, stop_]
  gstate,             \* [pc, calls, arg]: liveness of the process, number of
                      \* regions handed to the group, last region handed over
  \* ---- tag annotation applied repeatedly to one record ----
  ann,                \* [rec, first, region, lib, n, ok]
  \* ---- BamProcessor::process_regions / read_and_filter_reads ----
  regions,            \* the ordered region list
  cfg,                \* the filter thresholds (members of BamProcessor)
  writer_open,        \* bam_writer.IsOpen()
  file_read_groups,   \* std::map filename -> library label
  pc,                 \* position in process_regions
  region_idx,         \* region_iter (1-based index into regions)
  cur_chrom_id,       \* cur_chrom_id
  chrom_seq,          \* chrom_seq, identified by the chromosome it was read for
  num_loads,          \* number of readFasta calls made so far
  alignment,          \* the record last returned by GetNextAlignment
  read_count,         \* read_count
  counts,             \* the nine failure counters
  region_alignments,  \* region_alignments
  iter,               \* read_iter / align_iter (1-based)
  rg_indices,         \* rg_indices
  rg_names,           \* rg_names
  alignments_by_rg,   \* alignments_by_rg
  bam_out,            \* records saved by bam_writer, in order
  status              \* outcome of the calls of the last annotation iteration

groupVars == <<group, gstate>>
annVars   == <<ann>>
runVars   == <<regions, cfg, writer_open, file_read_groups, pc, region_idx,
               cur_chrom_id, chrom_seq, num_loads, alignment, read_count,
               counts, region_alignments, iter, rg_indices, rg_names,
               alignments_by_rg, bam_out, status>>
vars      == <<group, gstate, ann, regions, cfg, writer_open,
               file_read_groups, pc, region_idx, cur_chrom_id, chrom_seq,
               num_loads, alignment, read_count, counts, region_alignments,
               iter, rg_indices, rg_names, alignments_by_rg, bam_out, status>>

(***************************************************************************)
(* Bounds                                                                  *)
(***************************************************************************)
MaxGroup   == 3   \* regions handed to one RegionGroup
MaxRegions == 2   \* regions in the region file
MaxReads   == 3   \* records the reader returns for one region
MaxScan    == 1   \* records per region when the whole filter input space is drawn
MaxApply   == 2   \* repeated applications of the tag annotation

\* printErrorAndDie (error.h): prints the message and ends the process; the
\* position of a process that has ended
printErrorAndDie == "dead"

Min(a, b) == IF a < b THEN a ELSE b
Max(a, b) == IF a > b THEN a ELSE b

(***************************************************************************)
(* Region (region.h)                                                       *)
(***************************************************************************)
chr1  == <<1>>
chr10 == <<1, 0>>
chr2  == <<2>>
chrM  == <<3>>

\* std::string::compare: lexicographic, sign of the result
RECURSIVE Compare(_, _)
Compare(a, b) ==
  IF a = <<>> /\ b = <<>> THEN 0
  ELSE IF a = <<>> THEN -1
  ELSE IF b = <<>> THEN 1
  ELSE IF Head(a) < Head(b) THEN -1
  ELSE IF Head(a) > Head(b) THEN 1
  ELSE Compare(Tail(a), Tail(b))

\* the process ended by a failed assert (abort, signal 6)
SIGABRT == [signal |-> "SIGABRT"]

Aborted(v) == "signal" \in DOMAIN v

\* Region(chrom, start, stop, ...): assert(stop > start) ends the process when
\* it fails, the members are set otherwise.  period_ and name_ take no part in
\* the order or in any operation modelled here.
Region(chrom, start, stop) ==
  IF stop > start THEN [chrom |-> chrom, start |-> start, stop |-> stop]
  ELSE SIGABRT

\* Region::set_start, Region::set_stop: plain assignments, with no test of
\* stop > start
set_start(r, s) == [r EXCEPT !.start = s]
set_stop(r, s)  == [r EXCEPT !.stop = s]

\* Region::operator<
RegionLess(a, b) ==
  IF Compare(a.chrom, b.chrom) # 0 THEN Compare(a.chrom, b.chrom) < 0
  ELSE IF a.start # b.start THEN a.start < b.start
  ELSE IF a.stop # b.stop THEN a.stop < b.stop
  ELSE FALSE

\* insertion of r into a sequence sorted by RegionLess
RECURSIVE InsertSorted(_, _)
InsertSorted(r, s) ==
  IF s = <<>> THEN <<r>>
  ELSE IF RegionLess(r, Head(s)) THEN <<r>> \o s
  ELSE <<Head(s)>> \o InsertSorted(r, Tail(s))

RECURSIVE SortFrom(_, _)
SortFrom(s, acc) ==
  IF s = <<>> THEN acc ELSE SortFrom(Tail(s), InsertSorted(Head(s), acc))

\* variant: push_back with no sort after it
SortKeepsInputOrder(s) == s

\* std::sort(regions_.begin(), regions_.end()) with Region::operator<
SortRegions(s) == SortFrom(s, <<>>)

(***************************************************************************)
(* RegionGroup (region.h)                                                  *)
(***************************************************************************)
GroupChroms == {chr1, chr10, chr2}
GroupStarts == 1..3
GroupStops  == 2..4

\* the regions the constructor yields for these coordinates
GroupRegions ==
  { r \in [chrom : GroupChroms, start : GroupStarts, stop : GroupStops] :
      ~Aborted(Region(r.chrom, r.start, r.stop)) }

\* RegionGroup(Region& region)
RegionGroup(region) ==
  [regions_ |-> <<region>>, chrom_ |-> region.chrom,
   start_ |-> region.start, stop_ |-> region.stop]

\* variant: add_region with no chromosome test
GroupAcceptsAnyChrom(g, region) == FALSE

\* the test of add_region that leads to printErrorAndDie
GroupRejects(g, region) == Compare(region.chrom, g.chrom_) # 0

\* the body of add_region after the chromosome test
GroupInsert(g, region) ==
  [g EXCEPT !.start_   = Min(g.start_, region.start),
            !.stop_    = Max(g.stop_, region.stop),
            !.regions_ = SortRegions(Append(g.regions_, region))]

\* RegionGroup::add_region
add_region(region) ==
  /\ gstate.pc = "live"
  /\ gstate.calls < MaxGroup
  /\ gstate' = [pc    |-> IF GroupRejects(group, region) THEN printErrorAndDie ELSE "live",
                calls |-> gstate.calls + 1,
                arg   |-> region]
  /\ group' = IF GroupRejects(group, region) THEN group
              ELSE GroupInsert(group, region)
  /\ UNCHANGED <<annVars, runVars>>

\* the caller constructs a Region and hands it to add_region; a failed assert
\* in the constructor ends the process before add_region is entered
ConstructAndAdd(chrom, s, e) ==
  LET region == Region(chrom, s, e) IN
  IF Aborted(region)
  THEN /\ gstate.pc = "live"
       /\ gstate.calls < MaxGroup
       /\ gstate' = [gstate EXCEPT !.pc = "aborted"]
       /\ UNCHANGED <<group, annVars, runVars>>
  ELSE add_region(region)

\* RegionGroup::start / stop / num_regions
start(g)       == g.start_
stop(g)        == g.stop_
num_regions(g) == Len(g.regions_)

(***************************************************************************)
(* Alignment records and their tags (BamTools::BamAlignment)               *)
(*                                                                         *)
(* A record carries the fields the filter reads.  TagData is the list of   *)
(* auxiliary tags, each [tag, type, s, i] with s the value of a string tag *)
(* and i the value of an integer tag.  EndDistToIndel, LargestEndMatches   *)
(* and NumEndMatches are the results AlignmentFilters returns for the      *)
(* record against the reference buffer handed to it.                       *)
(***************************************************************************)
StrTag(t, v) == [tag |-> t, type |-> "Z", s |-> v, i |-> 0]
IntTag(t, v) == [tag |-> t, type |-> "I", s |-> "", i |-> v]

TagIndexes(a, t) == { k \in 1..Len(a.TagData) : a.TagData[k].tag = t }

\* BamAlignment::HasTag
HasTag(a, t) == TagIndexes(a, t) # {}

\* BamAlignment::RemoveTag: drops the tag where it is found
RemoveTag(a, t) ==
  IF ~HasTag(a, t) THEN a
  ELSE LET k == CHOOSE j \in TagIndexes(a, t) : \A m \in TagIndexes(a, t) : j <= m
       IN [a EXCEPT !.TagData =
             SubSeq(a.TagData, 1, k - 1) \o SubSeq(a.TagData, k + 1, Len(a.TagData))]

\* BamAlignment::AddTag: refuses (returns false, record untouched) when the
\* tag is already present or the library rejects the value; appends otherwise
AddTag(a, entry, refused) ==
  IF refused \/ HasTag(a, entry.tag) THEN [ok |-> FALSE, rec |-> a]
  ELSE [ok |-> TRUE, rec |-> [a EXCEPT !.TagData = Append(a.TagData, entry)]]

\* BamAlignment::EditTag: replaces the tag if present, adds it otherwise
EditTag(a, entry, refused) ==
  IF refused THEN [ok |-> FALSE, rec |-> a]
  ELSE AddTag(RemoveTag(a, entry.tag), entry, FALSE)

NoAlignment ==
  [RefID |-> -1, MateRefID |-> -1, Position |-> 0, EndPosition |-> 0,
   InsertSize |-> 0, TagData |-> <<>>, Filename |-> "",
   EndDistToIndel |-> <<-1, -1>>, LargestEndMatches |-> TRUE,
   NumEndMatches |-> <<0, 0>>]

(***************************************************************************)
(* The filter of read_and_filter_reads, lines 23-77                        *)
(***************************************************************************)
CounterNames ==
  {"diff_chrom_mate", "unmapped_mate", "not_spanning", "insert_size",
   "multimapped", "flank_len", "bp_before_indel", "end_match_window",
   "num_end_matches"}

ZeroCounts == [n \in CounterNames |-> 0]

\* the least int (32 bits)
INT_MIN == -2147483647 - 1

\* abs(int): the outcomes of the call.  abs(INT_MIN) overflows, which is
\* undefined: the negation wraps to INT_MIN, or the process is ended by a
\* trap on signed overflow
Abs(x) ==
  IF x = INT_MIN
  THEN {[trap |-> FALSE, value |-> INT_MIN], [trap |-> TRUE, value |-> 0]}
  ELSE {[trap |-> FALSE, value |-> IF x < 0 THEN -x ELSE x]}

\* line 24
DiffChromMate(a) == a.RefID # a.MateRefID

\* line 29
UnmappedMate(a) == a.InsertSize = 0

\* line 34
NotSpanning(a, r) == a.Position > r.start \/ a.EndPosition < r.stop

\* line 39, v the outcome of abs(alignment.InsertSize)
InsertSizeTooLarge(v, c) == v.value > c.MAX_MATE_DIST

\* line 44
Multimapped(a, c) == c.REMOVE_MULTIMAPPERS /\ HasTag(a, "XA")

\* variant: the flank test with >= and <=
FlankTooShortStrict(a, r, c) ==
  a.Position >= (r.start - c.MIN_FLANK) \/ a.EndPosition <= (r.stop + c.MIN_FLANK)

\* line 49
FlankTooShort(a, r, c) ==
  a.Position > (r.start - c.MIN_FLANK) \/ a.EndPosition < (r.stop + c.MIN_FLANK)

\* lines 54-60
IndelTooClose(a, c) ==
  /\ c.MIN_BP_BEFORE_INDEL > 0
  /\ \/ (a.EndDistToIndel[1] # -1 /\ a.EndDistToIndel[1] < c.MIN_BP_BEFORE_INDEL)
     \/ (a.EndDistToIndel[2] # -1 /\ a.EndDistToIndel[2] < c.MIN_BP_BEFORE_INDEL)

\* lines 62-68
NotMaximalEndMatch(a, c) ==
  c.MAXIMAL_END_MATCH_WINDOW > 0 /\ ~a.LargestEndMatches

\* lines 70-76
TooFewEndMatches(a, c) ==
  /\ c.MIN_READ_END_MATCH > 0
  /\ \/ a.NumEndMatches[1] < c.MIN_READ_END_MATCH
     \/ a.NumEndMatches[2] < c.MIN_READ_END_MATCH

\* the chain of tests of one iteration of the read loop, v the outcome of the
\* abs call of line 39: the counter that is incremented, "PASS" when line 77
\* is reached, "TRAP" when the abs call ends the process
Filter(a, r, c, v) ==
  IF DiffChromMate(a) THEN "diff_chrom_mate"
  ELSE IF UnmappedMate(a) THEN "unmapped_mate"
  ELSE IF NotSpanning(a, r) THEN "not_spanning"
  ELSE IF v.trap THEN "TRAP"
  ELSE IF InsertSizeTooLarge(v, c) THEN "insert_size"
  ELSE IF Multimapped(a, c) THEN "multimapped"
  ELSE IF FlankTooShort(a, r, c) THEN "flank_len"
  ELSE IF IndelTooClose(a, c) THEN "bp_before_indel"
  ELSE IF NotMaximalEndMatch(a, c) THEN "end_match_window"
  ELSE IF TooFewEndMatches(a, c) THEN "num_end_matches"
  ELSE "PASS"

\* one iteration of the while loop, lines 20-78
ReadAlignment(pool, limit) ==
  /\ pc = "read"
  /\ read_count < limit
  /\ \E a \in pool : \E v \in Abs(a.InsertSize) :
       LET outcome == Filter(a, regions[region_idx], cfg, v) IN
       /\ alignment' = a
       /\ read_count' = read_count + 1
       /\ pc' = IF outcome = "TRAP" THEN "trap" ELSE pc
       /\ IF outcome = "PASS"
          THEN /\ region_alignments' = Append(region_alignments, a)
               /\ counts' = counts
          ELSE IF outcome = "TRAP"
          THEN /\ region_alignments' = region_alignments
               /\ counts' = counts
          ELSE /\ region_alignments' = region_alignments
               /\ counts' = [counts EXCEPT ![outcome] = @ + 1]
  /\ UNCHANGED <<regions, cfg, writer_open, file_read_groups, region_idx,
                 cur_chrom_id, chrom_seq, num_loads, iter, rg_indices,
                 rg_names, alignments_by_rg, bam_out, status>>
  /\ UNCHANGED <<groupVars, annVars>>

\* GetNextAlignment returns false (line 20), the counts are printed (79-89):
\* on to the annotation loop if the writer is open, else to the demultiplexer
EndOfReads ==
  /\ pc = "read"
  /\ iter' = 1
  /\ pc' = IF region_alignments = <<>> THEN "process_reads"
           ELSE IF writer_open THEN "annotate"
           ELSE "demux"
  /\ UNCHANGED <<regions, cfg, writer_open, file_read_groups, region_idx,
                 cur_chrom_id, chrom_seq, num_loads, alignment, read_count,
                 counts, region_alignments, rg_indices, rg_names,
                 alignments_by_rg, bam_out, status>>
  /\ UNCHANGED <<groupVars, annVars>>

(***************************************************************************)
(* Annotation of the surviving records, lines 92-111                       *)
(***************************************************************************)
\* std::map::operator[] on file_read_groups: the stored label, or the empty
\* string, which is then inserted for the file name
Label(frg, f) == IF f \in DOMAIN frg THEN frg[f] ELSE ""
Touch(frg, f) ==
  IF f \in DOMAIN frg THEN frg
  ELSE [x \in DOMAIN frg \cup {f} |-> IF x = f THEN "" ELSE frg[x]]

\* line 95
RgTag(lib) == "lobSTR;" \o lib \o ";" \o lib

Outcome(ok) == IF ok THEN "ok" ELSE "failed"

\* variant: XS and XE set with no removal of an existing tag
AnnotateTagsNoRemove(a, r, lib, fault) ==
  LET rg == AddTag(a, StrTag("RG", RgTag(lib)), FALSE)
      xs == AddTag(rg.rec, IntTag("XS", r.start), fault = "XS")
      xe == EditTag(xs.rec, IntTag("XE", r.stop), fault = "XE")
  IN  [rec |-> IF xs.ok THEN xe.rec ELSE xs.rec,
       rg  |-> Outcome(rg.ok),
       xs  |-> Outcome(xs.ok),
       xe  |-> IF xs.ok THEN Outcome(xe.ok) ELSE "skipped"]

\* lines 95-107: the tag mutations applied to one surviving record.  fault
\* names the XS or XE call the tag library refuses for a reason of its own,
\* if any.  The result of AddTag("RG") is not looked at (line 96); a failed
\* XS or XE call ends in printErrorAndDie, so the calls after it are skipped.
AnnotateTags(a, r, lib, fault) ==
  LET rg == AddTag(a, StrTag("RG", RgTag(lib)), FALSE)
      a1 == IF HasTag(rg.rec, "XS") THEN RemoveTag(rg.rec, "XS") ELSE rg.rec
      xs == AddTag(a1, IntTag("XS", r.start), fault = "XS")
      a2 == IF HasTag(xs.rec, "XE") THEN RemoveTag(xs.rec, "XE") ELSE xs.rec
      xe == EditTag(a2, IntTag("XE", r.stop), fault = "XE")
  IN  [rec |-> IF xs.ok THEN xe.rec ELSE xs.rec,
       rg  |-> Outcome(rg.ok),
       xs  |-> Outcome(xs.ok),
       xe  |-> IF xs.ok THEN Outcome(xe.ok) ELSE "skipped"]

\* the call of one annotation iteration that fails for a reason of the tag
\* library or of the writer (lines 102, 106, 108), if any
Faults == {"none", "XS", "XE", "save"}

NoStatus == [rg |-> "skipped", xs |-> "skipped", xe |-> "skipped", save |-> "skipped"]

\* one iteration of the for loop, lines 93-110
Annotate ==
  /\ pc = "annotate"
  /\ iter <= Len(region_alignments)
  /\ \E fault \in Faults :
       LET a    == region_alignments[iter]
           lib  == Label(file_read_groups, a.Filename)
           t    == AnnotateTags(a, regions[region_idx], lib, fault)
           died == t.xs # "ok" \/ t.xe # "ok" \/ fault = "save"
       IN
       /\ file_read_groups' = Touch(file_read_groups, a.Filename)
       /\ region_alignments' = [region_alignments EXCEPT ![iter] = t.rec]
       /\ status' = [rg |-> t.rg, xs |-> t.xs, xe |-> t.xe,
                     save |-> IF t.xs # "ok" \/ t.xe # "ok" THEN "skipped"
                              ELSE Outcome(fault # "save")]
       /\ bam_out' = IF died THEN bam_out ELSE Append(bam_out, t.rec)
       /\ iter' = IF died THEN iter
                  ELSE IF iter = Len(region_alignments) THEN 1 ELSE iter + 1
       /\ pc' = IF died THEN printErrorAndDie
                ELSE IF iter = Len(region_alignments) THEN "demux"
                ELSE "annotate"
  /\ UNCHANGED <<regions, cfg, writer_open, region_idx, cur_chrom_id,
                 chrom_seq, num_loads, alignment, read_count, counts,
                 rg_indices, rg_names, alignments_by_rg>>
  /\ UNCHANGED <<groupVars, annVars>>

(***************************************************************************)
(* Demultiplexing by read group, lines 113-128                             *)
(***************************************************************************)
\* variant: the record put at the front of its bucket
BucketPutFront(bucket, a) == <<a>> \o bucket

\* line 127: push_back onto the bucket
BucketPut(bucket, a) == Append(bucket, a)

\* one iteration of the for loop, lines 115-128
Demultiplex ==
  /\ pc = "demux"
  /\ iter <= Len(region_alignments)
  /\ LET a     == region_alignments[iter]
         rg    == Label(file_read_groups, a.Filename)
         found == rg \in DOMAIN rg_indices
         rg_index == IF found THEN rg_indices[rg]
                     ELSE Cardinality(DOMAIN rg_indices)
         buckets  == IF found THEN alignments_by_rg
                     ELSE Append(alignments_by_rg, <<>>)
     IN
     /\ file_read_groups' = Touch(file_read_groups, a.Filename)
     /\ rg_indices' = IF found THEN rg_indices
                      ELSE [x \in DOMAIN rg_indices \cup {rg} |->
                              IF x = rg THEN rg_index ELSE rg_indices[x]]
     /\ rg_names' = IF found THEN rg_names ELSE Append(rg_names, rg)
     /\ alignments_by_rg' =
          [buckets EXCEPT ![rg_index + 1] = BucketPut(@, a)]
  /\ iter' = IF iter = Len(region_alignments) THEN 1 ELSE iter + 1
  /\ pc' = IF iter = Len(region_alignments) THEN "process_reads" ELSE "demux"
  /\ UNCHANGED <<regions, cfg, writer_open, region_idx, cur_chrom_id,
                 chrom_seq, num_loads, alignment, read_count, counts,
                 region_alignments, bam_out, status>>
  /\ UNCHANGED <<groupVars, annVars>>

(***************************************************************************)
(* process_regions, lines 143-178                                          *)
(***************************************************************************)
\* reader.GetReferenceData(): the reference names of the alignment files, in
\* header order; ids are 0-based positions in it
RefData == <<chr2, chr1>>

\* reader.GetReferenceID: the id of the name, -1 when the files have no such
\* reference
GetReferenceID(name) ==
  IF \E k \in 1..Len(RefData) : RefData[k] = name
  THEN (CHOOSE k \in 1..Len(RefData) : RefData[k] = name) - 1
  ELSE -1

\* readFasta(chrom + ".fa", ...): the buffer is identified by the name it
\* was read for; the empty string is <<>>
Fasta(name) == <<name>>
GarbageName == <<-1>>

\* line 152
NeedsLoad(cur, chrom_id) == cur # chrom_id

\* lines 148-157: resolve the chromosome id, read the reference if it changed.
\* ref_vector[-1] (line 154) is an out-of-bounds read: the process crashes or
\* goes on with whatever name it found there.
BeginRegion ==
  /\ pc = "region"
  /\ \E ub \in {"crash", "garbage"} :
       LET chrom_id == GetReferenceID(regions[region_idx].chrom) IN
       IF ~NeedsLoad(cur_chrom_id, chrom_id)
       THEN /\ pc' = "set_region"
            /\ UNCHANGED <<cur_chrom_id, chrom_seq, num_loads>>
       ELSE IF chrom_id >= 0
       THEN /\ pc' = "set_region"
            /\ cur_chrom_id' = chrom_id
            /\ chrom_seq' = Fasta(RefData[chrom_id + 1])
            /\ num_loads' = num_loads + 1
       ELSE IF ub = "crash"
       THEN /\ pc' = "dead"
            /\ cur_chrom_id' = chrom_id
            /\ UNCHANGED <<chrom_seq, num_loads>>
       ELSE /\ pc' = "set_region"
            /\ cur_chrom_id' = chrom_id
            /\ chrom_seq' = Fasta(GarbageName)
            /\ num_loads' = num_loads + 1
  /\ UNCHANGED <<regions, cfg, writer_open, file_read_groups, region_idx,
                 alignment, read_count, counts, region_alignments, iter,
                 rg_indices, rg_names, alignments_by_rg, bam_out, status>>
  /\ UNCHANGED <<groupVars, annVars>>

\* lines 170-175: position the reader on the region or die; then the locals
\* of the loop body and of read_and_filter_reads are constructed afresh
SetRegion ==
  /\ pc = "set_region"
  /\ \E ok \in BOOLEAN :
       IF ok
       THEN /\ pc' = "read"
            /\ alignment' = NoAlignment
            /\ read_count' = 0
            /\ counts' = ZeroCounts
            /\ region_alignments' = <<>>
            /\ iter' = 1
            /\ rg_indices' = <<>>
            /\ rg_names' = <<>>
            /\ alignments_by_rg' = <<>>
            /\ status' = NoStatus
       ELSE /\ pc' = printErrorAndDie
            /\ UNCHANGED <<alignment, read_count, counts, region_alignments,
                           iter, rg_indices, rg_names, alignments_by_rg, status>>
  /\ UNCHANGED <<regions, cfg, writer_open, file_read_groups, region_idx,
                 cur_chrom_id, chrom_seq, num_loads, bam_out>>
  /\ UNCHANGED <<groupVars, annVars>>

\* read_and_filter_reads returns, process_reads (line 177) does nothing, the
\* locals of the loop body go out of scope and the loop moves on
ProcessReads ==
  /\ pc = "process_reads"
  /\ region_idx' = region_idx + 1
  /\ pc' = IF region_idx = Len(regions) THEN "done" ELSE "region"
  /\ alignment' = NoAlignment
  /\ read_count' = 0
  /\ counts' = ZeroCounts
  /\ region_alignments' = <<>>
  /\ iter' = 1
  /\ rg_indices' = <<>>
  /\ rg_names' = <<>>
  /\ alignments_by_rg' = <<>>
  /\ status' = NoStatus
  /\ UNCHANGED <<regions, cfg, writer_open, file_read_groups, cur_chrom_id,
                 chrom_seq, num_loads, bam_out>>
  /\ UNCHANGED <<groupVars, annVars>>

\* orderRegions(regions): sorts by Region::operator<
orderRegions(rs) == SortRegions(rs)

(***************************************************************************)
(* Repeated annotation of one record                                       *)
(***************************************************************************)
\* the tag mutations of lines 95-107 applied once more to the record they
\* produced; a failed XS or XE call would have ended the process
ApplyAnnotation ==
  /\ ann.n < MaxApply
  /\ ann.ok
  /\ LET t == AnnotateTags(ann.rec, ann.region, ann.lib, "none") IN
     ann' = [ann EXCEPT !.rec   = t.rec,
                        !.first = IF ann.n = 0 THEN t.rec ELSE @,
                        !.n     = @ + 1,
                        !.ok    = t.xs = "ok" /\ t.xe = "ok"]
  /\ UNCHANGED <<groupVars, runVars>>

(***************************************************************************)
(* Inputs                                                                  *)
(***************************************************************************)
BaseRecord ==
  [RefID |-> 1, MateRefID |-> 1, Position |-> 95, EndPosition |-> 205,
   InsertSize |-> 3, TagData |-> <<>>, Filename |-> "x.bam",
   EndDistToIndel |-> <<-1, -1>>, LargestEndMatches |-> TRUE,
   NumEndMatches |-> <<3, 3>>]

\* the inputs of the filter: every combination of mate, insert size, extent
\* against region [100,200), XA tag, distance to the nearest indel and end
\* matches (maximal or not, long enough or not on either end); and records
\* whose insert size is the least int
Extents == {<<95, 205>>, <<97, 203>>, <<97, 205>>, <<95, 203>>, <<101, 205>>, <<95, 199>>}
EndMatches == {<<TRUE, <<3, 3>>>>, <<FALSE, <<3, 3>>>>, <<TRUE, <<1, 3>>>>, <<FALSE, <<3, 1>>>>}

CascadeRecords ==
  { [RefID |-> 1, MateRefID |-> m, Position |-> x[1], EndPosition |-> x[2],
     InsertSize |-> i, TagData |-> t, Filename |-> "x.bam",
     EndDistToIndel |-> d, LargestEndMatches |-> e[1], NumEndMatches |-> e[2]] :
      m \in {0, 1}, x \in Extents, i \in {0, 3, -7},
      t \in {<<>>, <<StrTag("XA", "chr2,+7,5M,0;")>>},
      d \in {<<-1, -1>>, <<1, -1>>, <<4, 1>>}, e \in EndMatches }
  \cup { [BaseRecord EXCEPT !.InsertSize = INT_MIN, !.Position = x[1],
                            !.EndPosition = x[2], !.EndDistToIndel = d] :
           x \in {<<95, 205>>, <<97, 203>>, <<101, 205>>},
           d \in {<<-1, -1>>, <<1, -1>>} }

\* records that pass the filter, with every combination of the tags the
\* annotation writes and of the files they come from, and one that fails
TagVariants ==
  {<<>>,
   <<StrTag("RG", "sample1")>>,
   <<IntTag("XS", 1), IntTag("XE", 2)>>,
   <<StrTag("RG", "sample1"), IntTag("XS", 1), IntTag("XE", 2)>>}

AnnotRecords ==
  { [BaseRecord EXCEPT !.TagData = t, !.Filename = f] :
      t \in TagVariants, f \in {"x.bam", "y.bam", "z.bam"} }
  \cup { [BaseRecord EXCEPT !.InsertSize = 0] }

RegionRecords == { BaseRecord, [BaseRecord EXCEPT !.Position = 101] }

DefaultConfig ==
  [MAX_MATE_DIST |-> 5, REMOVE_MULTIMAPPERS |-> FALSE, MIN_FLANK |-> 0,
   MIN_BP_BEFORE_INDEL |-> 0, MAXIMAL_END_MATCH_WINDOW |-> 0,
   MIN_READ_END_MATCH |-> 0]

StrictConfig ==
  [MAX_MATE_DIST |-> 5, REMOVE_MULTIMAPPERS |-> TRUE, MIN_FLANK |-> 5,
   MIN_BP_BEFORE_INDEL |-> 2, MAXIMAL_END_MATCH_WINDOW |-> 1,
   MIN_READ_END_MATCH |-> 2]

\* the user-controlled filters all off, all on, one on, one off; a larger
\* mate distance; a negative flank
Switches(c) ==
  { [c EXCEPT !.REMOVE_MULTIMAPPERS = ~c.REMOVE_MULTIMAPPERS],
    [c EXCEPT !.MIN_FLANK = 5 - c.MIN_FLANK],
    [c EXCEPT !.MIN_BP_BEFORE_INDEL = 2 - c.MIN_BP_BEFORE_INDEL],
    [c EXCEPT !.MAXIMAL_END_MATCH_WINDOW = 1 - c.MAXIMAL_END_MATCH_WINDOW],
    [c EXCEPT !.MIN_READ_END_MATCH = 2 - c.MIN_READ_END_MATCH] }

Configs ==
  {DefaultConfig, StrictConfig} \cup Switches(DefaultConfig) \cup Switches(StrictConfig)
  \cup { [StrictConfig EXCEPT !.MAX_MATE_DIST = 10],
         [StrictConfig EXCEPT !.MIN_FLANK = -5] }

\* the file name -> library map handed to process_regions; z.bam is not in it
FileReadGroups ==
  [f \in {"x.bam", "y.bam"} |-> IF f = "x.bam" THEN "libB" ELSE "libA"]

TheRegion == Region(chr1, 100, 200)

RunRegions ==
  {Region(chr1, 100, 200), Region(chr1, 150, 250), Region(chr10, 100, 200),
   Region(chr2, 100, 200), Region(chrM, 100, 200)}

RegionFiles(n) == UNION { [1..k -> RunRegions] : k \in 0..n }

(***************************************************************************)
(* Initial states and specifications                                       *)
(***************************************************************************)
\* process_regions entered with the ordered region list (lines 135-146)
RunInit(regionLists, configs, writers) ==
  /\ regions \in regionLists
  /\ cfg \in configs
  /\ writer_open \in writers
  /\ file_read_groups = FileReadGroups
  /\ pc = IF regions = <<>> THEN "done" ELSE "region"
  /\ region_idx = 1
  /\ cur_chrom_id = -1
  /\ chrom_seq = <<>>
  /\ num_loads = 0
  /\ alignment = NoAlignment
  /\ read_count = 0
  /\ counts = ZeroCounts
  /\ region_alignments = <<>>
  /\ iter = 1
  /\ rg_indices = <<>>
  /\ rg_names = <<>>
  /\ alignments_by_rg = <<>>
  /\ bam_out = <<>>
  /\ status = NoStatus

RunIdle == RunInit({<<>>}, {DefaultConfig}, {FALSE})

GroupIdle ==
  /\ group = RegionGroup(TheRegion)
  /\ gstate = [pc |-> "live", calls |-> 1, arg |-> TheRegion]

AnnIdle ==
  ann = [input |-> NoAlignment, rec |-> NoAlignment, first |-> NoAlignment,
         region |-> TheRegion, lib |-> "", n |-> 0, ok |-> TRUE]

\* one region, records with every tag combination from three files
Init ==
  /\ RunInit({<<TheRegion>>}, {DefaultConfig}, BOOLEAN)
  /\ GroupIdle /\ AnnIdle

Next ==
  \/ BeginRegion
  \/ SetRegion
  \/ ReadAlignment(AnnotRecords, MaxReads)
  \/ EndOfReads
  \/ Annotate
  \/ Demultiplex
  \/ ProcessReads

Spec == Init /\ [][Next]_vars

\* one region, every filter configuration, every filter input
InitCascade ==
  /\ RunInit({<<TheRegion>>}, Configs, {TRUE})
  /\ GroupIdle /\ AnnIdle

NextCascade ==
  \/ BeginRegion
  \/ SetRegion
  \/ ReadAlignment(CascadeRecords, MaxScan)
  \/ EndOfReads
  \/ Annotate
  \/ Demultiplex
  \/ ProcessReads

SpecCascade == InitCascade /\ [][NextCascade]_vars

\* every ordered region file of up to MaxRegions regions
InitRegions ==
  /\ RunInit({orderRegions(l) : l \in RegionFiles(MaxRegions)}, {DefaultConfig}, BOOLEAN)
  /\ GroupIdle /\ AnnIdle

NextRegions ==
  \/ BeginRegion
  \/ SetRegion
  \/ ReadAlignment(RegionRecords, MaxScan)
  \/ EndOfReads
  \/ Annotate
  \/ Demultiplex
  \/ ProcessReads

SpecRegions == InitRegions /\ [][NextRegions]_vars

\* a RegionGroup constructed from one region, then extended
\* the regions a caller can hand over: constructed, or constructed and then
\* changed by set_start or set_stop
GroupArgs ==
  GroupRegions
  \cup { set_start(r, s) : r \in GroupRegions, s \in GroupStarts }
  \cup { set_stop(r, e) : r \in GroupRegions, e \in GroupStops }

InitGroup ==
  /\ \E r \in GroupArgs :
       /\ group = RegionGroup(r)
       /\ gstate = [pc |-> "live", calls |-> 1, arg |-> r]
  /\ AnnIdle /\ RunIdle

NextGroup ==
  \/ \E c \in GroupChroms, s \in GroupStarts, e \in GroupStops : ConstructAndAdd(c, s, e)
  \/ \E r \in GroupRegions, s \in GroupStarts : add_region(set_start(r, s))
  \/ \E r \in GroupRegions, e \in GroupStops : add_region(set_stop(r, e))

SpecGroup == InitGroup /\ [][NextGroup]_vars

\* one record, one region, one library label; the annotation applied again
InitAnnotate ==
  /\ \E a \in AnnotRecords, r \in {TheRegion, Region(chr2, 150, 250)},
        l \in {"libA", "libB", ""} :
       ann = [input |-> a, rec |-> a, first |-> a, region |-> r, lib |-> l,
              n |-> 0, ok |-> TRUE]
  /\ GroupIdle /\ RunIdle

NextAnnotate == ApplyAnnotation

SpecAnnotate == InitAnnotate /\ [][NextAnnotate]_vars

(***************************************************************************)
(* The nine predicates of the filter as the specification states them      *)
(***************************************************************************)
Reasons ==
  <<"diff_chrom_mate", "unmapped_mate", "not_spanning", "insert_size",
    "multimapped", "flank_len", "bp_before_indel", "end_match_window",
    "num_end_matches">>

FarEnough(d, m) == d = -1 \/ d >= m

Satisfies(k, a, r, c) ==
  CASE k = 1 -> a.RefID = a.MateRefID
    [] k = 2 -> a.InsertSize # 0
    [] k = 3 -> a.Position <= r.start /\ a.EndPosition >= r.stop
    [] k = 4 -> a.InsertSize <= c.MAX_MATE_DIST /\ a.InsertSize >= -c.MAX_MATE_DIST
    [] k = 5 -> c.REMOVE_MULTIMAPPERS => \A j \in 1..Len(a.TagData) : a.TagData[j].tag # "XA"
    [] k = 6 -> c.MIN_FLANK > 0 =>
                  (r.start - a.Position >= c.MIN_FLANK /\ a.EndPosition - r.stop >= c.MIN_FLANK)
    [] k = 7 -> c.MIN_BP_BEFORE_INDEL > 0 =>
                  (FarEnough(a.EndDistToIndel[1], c.MIN_BP_BEFORE_INDEL)
                   /\ FarEnough(a.EndDistToIndel[2], c.MIN_BP_BEFORE_INDEL))
    [] k = 8 -> c.MAXIMAL_END_MATCH_WINDOW > 0 => a.LargestEndMatches
    [] k = 9 -> c.MIN_READ_END_MATCH > 0 =>
                  (a.NumEndMatches[1] >= c.MIN_READ_END_MATCH
                   /\ a.NumEndMatches[2] >= c.MIN_READ_END_MATCH)

Failing(a, r, c) == { k \in 1..9 : ~Satisfies(k, a, r, c) }

First(S) == CHOOSE k \in S : \A j \in S : k <= j

InRegion == pc \in {"read", "annotate", "demux", "process_reads", "dead", "trap"}

\* an iteration of the read loop that ran to its end
ReadStep == pc = "read" /\ pc' = "read" /\ read_count' = read_count + 1

(***************************************************************************)
(* C1: every record in region_alignments satisfies all nine predicates as  *)
(* configured, for the region being processed.                             *)
(***************************************************************************)
C1_SurvivorsSatisfyAll ==
  InRegion =>
    \A i \in 1..Len(region_alignments) :
      Failing(region_alignments[i], regions[region_idx], cfg) = {}

(***************************************************************************)
(* C2: a read that fails some predicate increments exactly the counter of  *)
(* the first failing enabled predicate, in the order 1..9, and is not      *)
(* kept; a read that fails none is kept and no counter moves.              *)
(***************************************************************************)
C2_FirstFailingAttributed ==
  [][ReadStep =>
        LET F == Failing(alignment', regions[region_idx], cfg) IN
        IF F = {}
        THEN /\ counts' = counts
             /\ region_alignments' = Append(region_alignments, alignment')
        ELSE /\ counts' = [counts EXCEPT ![Reasons[First(F)]] = @ + 1]
             /\ region_alignments' = region_alignments]_vars

(***************************************************************************)
(* C3: when the demultiplexing loop has finished, rg_names lists the       *)
(* labels of the surviving records in first-seen order, alignments_by_rg   *)
(* has one bucket per name, and bucket k holds exactly the surviving       *)
(* records whose label is rg_names[k], in their original order.            *)
(***************************************************************************)
RECURSIVE FirstSeen(_)
FirstSeen(s) ==
  IF s = <<>> THEN <<>>
  ELSE LET rest == FirstSeen(SubSeq(s, 1, Len(s) - 1))
           last == s[Len(s)]
       IN IF \E k \in 1..Len(rest) : rest[k] = last THEN rest ELSE Append(rest, last)

LabelOf(a) == Label(file_read_groups, a.Filename)

WithLabel(l) ==
  LET Has(a) == LabelOf(a) = l IN SelectSeq(region_alignments, Has)

C3_DemuxFirstSeenOrder ==
  pc = "process_reads" =>
    /\ rg_names =
         FirstSeen([i \in 1..Len(region_alignments) |-> LabelOf(region_alignments[i])])
    /\ Len(alignments_by_rg) = Len(rg_names)
    /\ \A k \in 1..Len(rg_names) : alignments_by_rg[k] = WithLabel(rg_names[k])

C3_Witness ==
  /\ pc = "process_reads"
  /\ rg_names = <<"libB", "libA">>
  /\ Len(alignments_by_rg[1]) = 2
  /\ LabelOf(region_alignments[2]) = "libA"
  /\ alignments_by_rg[1][1] # alignments_by_rg[1][2]

(***************************************************************************)
(* C4: while the group lives, start() is the least member start, stop()    *)
(* the greatest member stop, num_regions() the number of regions handed    *)
(* to the group, and the members are in Region order.                      *)
(***************************************************************************)
C4_GroupBounds ==
  LET m == group.regions_ IN
  /\ \A i \in 1..Len(m) : start(group) <= m[i].start /\ stop(group) >= m[i].stop
  /\ \E i \in 1..Len(m) : start(group) = m[i].start
  /\ \E i \in 1..Len(m) : stop(group) = m[i].stop
  /\ \A i \in 1..Len(m), j \in 1..Len(m) : i < j => ~RegionLess(m[j], m[i])
  /\ gstate.pc = "live" => num_regions(group) = gstate.calls

C4_Witness ==
  /\ gstate.pc = "live"
  /\ num_regions(group) = 3
  /\ group.regions_[1] = gstate.arg
  /\ group.regions_[2] # gstate.arg
  /\ stop(group) > gstate.arg.stop

(***************************************************************************)
(* C5: entering a region on the chromosome of the previous region loads    *)
(* nothing and keeps the cached sequence; entering a region on another     *)
(* chromosome (or the first region) loads once, the sequence of that       *)
(* chromosome; the filter runs with the sequence of its region's           *)
(* chromosome.                                                             *)
(***************************************************************************)
C5_ReferenceReload ==
  [][/\ (pc = "region" /\ pc' # "region") =>
          LET r == regions[region_idx] IN
          IF region_idx > 1 /\ regions[region_idx - 1].chrom = r.chrom
          THEN num_loads' = num_loads /\ chrom_seq' = chrom_seq
          ELSE num_loads' = num_loads + 1 /\ chrom_seq' = Fasta(r.chrom)
     /\ pc' = "read" => chrom_seq' = Fasta(regions[region_idx].chrom)]_vars

(***************************************************************************)
(* C6: in the annotation loop a failed RG, XS or XE tag call or a failed   *)
(* write ends the run, and the record is not written.                      *)
(***************************************************************************)
C6_AnnotationFailureFatal ==
  [][(pc = "annotate"
      /\ "failed" \in {status'.rg, status'.xs, status'.xe, status'.save})
       => (pc' = "dead" /\ bam_out' = bam_out)]_vars

(***************************************************************************)
(* C7: a record written to the output carries exactly one RG tag with      *)
(* value lobSTR;<library>;<library>, one XS tag with the region start and  *)
(* one XE tag with the region stop.                                        *)
(***************************************************************************)
Carries(a, entry) ==
  /\ Cardinality(TagIndexes(a, entry.tag)) = 1
  /\ \A k \in TagIndexes(a, entry.tag) : a.TagData[k] = entry

C7_EmittedTags ==
  [][bam_out' # bam_out =>
       LET e   == bam_out'[Len(bam_out')]
           lib == Label(file_read_groups, region_alignments[iter].Filename)
           r   == regions[region_idx]
       IN /\ Carries(e, StrTag("RG", RgTag(lib)))
          /\ Carries(e, IntTag("XS", r.start))
          /\ Carries(e, IntTag("XE", r.stop))]_vars

(***************************************************************************)
(* C8: the tag annotation applied again to its own result does not fail    *)
(* and leaves RG, XS and XE each present once with the values the first    *)
(* application left.                                                       *)
(***************************************************************************)
C8_AnnotationIdempotent ==
  ann.n >= 1 =>
    /\ ann.ok
    /\ \A t \in {"RG", "XS", "XE"} :
         /\ Cardinality(TagIndexes(ann.rec, t)) = 1
         /\ Cardinality(TagIndexes(ann.first, t)) = 1
         /\ \A i \in TagIndexes(ann.rec, t), j \in TagIndexes(ann.first, t) :
              ann.rec.TagData[i] = ann.first.TagData[j]

C8_Witness ==
  /\ ann.n = 2
  /\ ~HasTag(ann.input, "RG")
  /\ ~HasTag(ann.input, "XS")
  /\ ann.lib = "libA"

(***************************************************************************)
(* C9: add_region with a region of another chromosome ends the run and     *)
(* leaves start, stop and the members as they were; the members of a group *)
(* are all of the group's chromosome.                                      *)
(***************************************************************************)
C9_CrossChromRejected ==
  [][/\ (gstate'.calls # gstate.calls /\ gstate'.arg.chrom # group.chrom_)
          => (gstate'.pc = "dead" /\ group' = group)
     /\ \A i \in 1..Len(group'.regions_) : group'.regions_[i].chrom = group'.chrom_]_vars

C9_Witness ==
  /\ gstate.pc = "dead"
  /\ gstate.arg.chrom = chr10
  /\ group.chrom_ = chr1
  /\ num_regions(group) = 2

(***************************************************************************)
(* C10: a read is counted as insufficient flank exactly when the minimum   *)
(* flank F is positive, none of the tests 1-5 rejected the read and its    *)
(* start is beyond region start - F or its end before region stop + F;     *)
(* with F = 0 the outcome of the iteration is that of the chain of tests   *)
(* with the flank test taken out.                                          *)
(***************************************************************************)
FirstFive ==
  {"diff_chrom_mate", "unmapped_mate", "not_spanning", "insert_size", "multimapped"}

\* the chain of tests with the test of line 49 absent
FilterWithoutFlank(a, r, c, v) ==
  IF DiffChromMate(a) THEN "diff_chrom_mate"
  ELSE IF UnmappedMate(a) THEN "unmapped_mate"
  ELSE IF NotSpanning(a, r) THEN "not_spanning"
  ELSE IF InsertSizeTooLarge(v, c) THEN "insert_size"
  ELSE IF Multimapped(a, c) THEN "multimapped"
  ELSE IF IndelTooClose(a, c) THEN "bp_before_indel"
  ELSE IF NotMaximalEndMatch(a, c) THEN "end_match_window"
  ELSE IF TooFewEndMatches(a, c) THEN "num_end_matches"
  ELSE "PASS"

C10_FlankOnlyWhenPositive ==
  [][ReadStep =>
        LET a == alignment'
            r == regions[region_idx]
            F == cfg.MIN_FLANK
            v == CHOOSE w \in Abs(a.InsertSize) : ~w.trap
            absent == FilterWithoutFlank(a, r, cfg, v)
        IN /\ (counts'["flank_len"] = counts["flank_len"] + 1)
                <=> /\ F > 0
                    /\ \A n \in FirstFive : counts'[n] = counts[n]
                    /\ (a.Position > r.start - F \/ a.EndPosition < r.stop + F)
           /\ F = 0 =>
                IF absent = "PASS"
                THEN /\ counts' = counts
                     /\ region_alignments' = Append(region_alignments, a)
                ELSE /\ counts' = [counts EXCEPT ![absent] = @ + 1]
                     /\ region_alignments' = region_alignments]_vars

C10_Witness ==
  /\ pc = "read"
  /\ regions[region_idx] = Region(chr1, 100, 200)
  /\ cfg.MIN_FLANK = 5
  /\ alignment.Position = 97 /\ alignment.EndPosition = 203
  /\ counts = [ZeroCounts EXCEPT !["flank_len"] = 1]

====
